---- MODULE Spec2Model ----
(***************************************************************************)
(* Model of the LLM conversation orchestrator (src/orchestrator/app.py):   *)
(* the turn scheduler (create_conversation, continue_conversation), the    *)
(* response clean-up of generate_response, and the model loading tracker   *)
(* (load_model, perform_model_loading).                                    *)
(*                                                                         *)
(* Text is a sequence of one-character strings.  The handlers are asyncio  *)
(* coroutines: they run without interruption between two awaits of a       *)
(* backend call, so one action is one such run of a handler.               *)
(***************************************************************************)
EXTENDS Integers, Sequences, FiniteSets, TLC

(* ------------------------------ bounds --------------------------------- *)
\* requests (create or continue) accepted in one behaviour
MaxRequests == 2
\* turns requested in one behaviour, over all requests
MaxTurns == 3
\* load requests accepted in one behaviour
MaxLoads == 3
\* pieces a text given to the clean-up is made of
MaxPieces == 4
\* messages of a transcript given to the prompt builder
MaxMessages == 23
\* load requests followed through the lock in one behaviour
MaxLoaders == 3
\* load requests accepted while batches of turns run
MaxBatchLoads == 1

(* --------------------------- text helpers ------------------------------ *)
Range(s) == {s[i] : i \in 1..Len(s)}

RECURSIVE LStrip(_)
LStrip(s) == IF s = <<>> THEN s
             ELSE IF Head(s) = " " THEN LStrip(Tail(s)) ELSE s

RECURSIVE RStrip(_)
RStrip(s) == IF s = <<>> THEN s
             ELSE IF s[Len(s)] = " " THEN RStrip(SubSeq(s, 1, Len(s) - 1)) ELSE s

\* str.strip()
Strip(s) == RStrip(LStrip(s))

\* str.startswith / str.endswith
StartsWith(s, p) == Len(p) <= Len(s) /\ SubSeq(s, 1, Len(p)) = p
EndsWith(s, p) == Len(p) <= Len(s) /\ SubSeq(s, Len(s) - Len(p) + 1, Len(s)) = p

\* str.find: 0-based position of the first occurrence at or after i, or -1
RECURSIVE FindFrom(_, _, _)
FindFrom(s, p, i) ==
    IF i + Len(p) > Len(s) THEN -1
    ELSE IF SubSeq(s, i + 1, i + Len(p)) = p THEN i
    ELSE FindFrom(s, p, i + 1)

Find(s, p) == FindFrom(s, p, 0)

\* the `in` operator on strings
Contains(s, p) == Find(s, p) # -1

\* str.split(sep)
RECURSIVE Split(_, _)
Split(s, sep) ==
    LET k == Find(s, sep) IN
    IF k = -1 THEN <<s>>
    ELSE <<SubSeq(s, 1, k)>> \o Split(SubSeq(s, k + Len(sep) + 1, Len(s)), sep)

\* "".join(parts)
RECURSIVE Join(_)
Join(parts) == IF parts = <<>> THEN <<>> ELSE Head(parts) \o Join(Tail(parts))

\* s[1:-1]
DropEnds(s) == SubSeq(s, 2, Len(s) - 1)

ThinkOpen == <<"<", "t", "h", "i", "n", "k", ">">>
ThinkClose == <<"<", "/", "t", "h", "i", "n", "k", ">">>
DoubleQuote == <<"\"">>
SingleQuote == <<"'">>

(* ------------------ response clean-up (generate_response) -------------- *)
\* one part after a "<think>": cut through the first "</think>" if there is one
CutThinkPart(part) ==
    IF Contains(part, ThinkClose)
    THEN SubSeq(part, Find(part, ThinkClose) + Len(ThinkClose) + 1, Len(part))
    ELSE part

RemoveThink(text) ==
    IF Contains(text, ThinkOpen) /\ Contains(text, ThinkClose)
    THEN LET parts == Split(text, ThinkOpen) IN
         Join([i \in 1..Len(parts) |-> IF i = 1 THEN parts[i] ELSE CutThinkPart(parts[i])])
    ELSE text

\* the loop over conversation.characters that removes a "<name>:" prefix
RECURSIVE StripNamePrefix(_, _)
StripNamePrefix(text, characters) ==
    IF characters = <<>> THEN text
    ELSE LET prefix == <<Head(characters), ":">> IN
         StripNamePrefix(IF StartsWith(text, prefix)
                         THEN Strip(SubSeq(text, Len(prefix) + 1, Len(text)))
                         ELSE text,
                         Tail(characters))

StripQuotes(text) ==
    IF \/ StartsWith(text, DoubleQuote) /\ EndsWith(text, DoubleQuote)
       \/ StartsWith(text, SingleQuote) /\ EndsWith(text, SingleQuote)
    THEN Strip(DropEnds(text))
    ELSE text

CleanResponse(response_text, characters) ==
    Strip(StripQuotes(StripNamePrefix(RemoveThink(Strip(response_text)), characters)))

(* -------------------- prompt history (generate_response) --------------- *)
\* "use only the last some messages": conversation.messages[-20:]
HistoryWindow == 20

\* messages[-n:]
LastN(messages, n) ==
    SubSeq(messages, IF Len(messages) > n THEN Len(messages) - n + 1 ELSE 1, Len(messages))

\* "Clean any thinking tags from previous messages"
RemoveThinkHistory(content) ==
    IF Contains(content, ThinkOpen) /\ Contains(content, ThinkClose)
    THEN LET parts == Split(content, ThinkOpen) IN
         Join([i \in 1..Len(parts) |->
                  IF i > 1 /\ Contains(parts[i], ThinkClose)
                  THEN SubSeq(parts[i], Find(parts[i], ThinkClose) + Len(ThinkClose) + 1,
                              Len(parts[i]))
                  ELSE parts[i]])
    ELSE content

\* "Remove quotes from content"
StripQuotesHistory(content) ==
    IF \/ StartsWith(content, DoubleQuote) /\ EndsWith(content, DoubleQuote)
       \/ StartsWith(content, SingleQuote) /\ EndsWith(content, SingleQuote)
    THEN Strip(DropEnds(content))
    ELSE content

\* the text of one message as the prompt shows it: f"{message.role}: {content.strip()}"
CleanHistory(content) == Strip(StripQuotesHistory(RemoveThinkHistory(content)))

IsSystem(message) == message.role = "system"
NotSystem(message) == ~IsSystem(message)

\* the history lines of the prompt, each as its role and its text
RenderHistoryFilterFirst(messages) ==
    LET kept == LastN(SelectSeq(messages, NotSystem), HistoryWindow) IN
    [i \in 1..Len(kept) |-> [role |-> kept[i].role, content |-> CleanHistory(kept[i].content)]]

RenderHistory(messages) ==
    LET kept == SelectSeq(LastN(messages, HistoryWindow), NotSystem) IN
    [i \in 1..Len(kept) |-> [role |-> kept[i].role, content |-> CleanHistory(kept[i].content)]]

(* ------------------------------ data ----------------------------------- *)
\* persona files present in CHARACTERS_DIR
Personas == {"A", "B", "C"}

\* participant lists a create request may carry ("Z" has no persona file)
CharacterLists ==
    { <<>>, <<"A">>, <<"A", "B">>, <<"A", "B", "C">>, <<"A", "B", "A">>, <<"A", "Z">> }

\* initial_message values of a create request
InitialMessages == { <<"h", "i">> }

\* texts the backend may return as "response"
Responses == { <<" ", "B", ":", " ", "\"", "y", "o", "\"">> }

\* the ways a backend call fails
FailureKinds == {"status", "timeout", "exception"}

\* conversation ids: every request may need a fresh one
ConvIds == 1..MaxRequests

Message(role, content) == [role |-> role, content |-> content]

\* content of the synthetic first message (abbreviated)
StartText == <<"s", "t", "a", "r", "t">>

NoConv == [exists |-> FALSE, characters |-> <<>>, messages |-> <<>>]

Conversation(characters, messages) ==
    [exists |-> TRUE, characters |-> characters, messages |-> messages]

\* conversation files that may already lie in CONVERSATIONS_DIR at start-up,
\* written by an earlier run or edited out of band
PreExisting ==
    { NoConv,
      Conversation(<<"A", "B">>, <<Message("system", StartText)>>),
      Conversation(<<"A", "B">>, <<Message("system", StartText), Message("A", <<"h", "i">>),
                                   Message("C", <<"o", "k">>)>>),
      Conversation(<<"A", "Z">>, <<Message("system", StartText), Message("A", <<"h", "i">>)>>) }

DEFAULT_SYSTEM_CONFIG == [active_model |-> "deepseek:7b", temperature |-> 7, max_tokens |-> 1024]

NoRequest == [model |-> "", temperature |-> 0, max_tokens |-> 0, history |-> <<>>, cue |-> ""]

NotGiven == [given |-> FALSE, characters |-> <<>>]

VARIABLES
    store,                 \* CONVERSATIONS_DIR: conversation id -> file content
    calls,                 \* the create / continue requests received so far, each with its coroutine's frame
    created,               \* history: the participant list given when the id was created
    config,                \* CONFIG_FILE
    model_loading_status,  \* the global dict: model -> "absent" | "loading" (True) | "idle" (False)
    tasks,                 \* the perform_model_loading tasks spawned so far
    loaders,               \* the load_model handlers running or returned
    lock,                  \* model_loading_lock: who holds it
    san,                   \* one text on its way through the response clean-up
    hist                   \* one transcript and the prompt history built from it

vars == <<store, calls, created, config, model_loading_status, tasks, loaders, lock, san, hist>>

\* the variables the conversation and loading handlers leave alone
others == <<loaders, lock, san, hist>>

(* --------------------------- exceptions -------------------------------- *)
HTTPException(status_code, detail) ==
    [type |-> "HTTPException", status_code |-> status_code, detail |-> detail]
PyError(type) == [type |-> type, status_code |-> 0, detail |-> type]
NoError == [type |-> "", status_code |-> 0, detail |-> ""]

\* the `except HTTPException: raise` / `except Exception: raise HTTPException(500)` clauses
HandlerExceptAll500(exc) == HTTPException(500, exc.detail)

HandlerExcept(exc) ==
    IF exc.type = "HTTPException" THEN exc ELSE HTTPException(500, exc.detail)

\* the handler ends with the exception its except clauses surface
Raise(r, exc) ==
    [r EXCEPT !.pc = "done", !.error = HandlerExcept(exc),
              !.status_code = HandlerExcept(exc).status_code]

Return(r) == [r EXCEPT !.pc = "done", !.status_code = 200]

(* ---------------------------- turn scheduler --------------------------- *)
\* list.index: 0-based position of the first occurrence (the caller checks membership)
ListIndex(characters, x) ==
    CHOOSE i \in 0..(Len(characters) - 1) :
        /\ characters[i + 1] = x
        /\ \A j \in 0..(i - 1) : characters[j + 1] # x

\* create_conversation: "Start with the second character"
CreateStartIndex == 1

\* create_conversation: the wrap at the top of the loop body
CreateWrapIndexToStart(current_character_index, characters) ==
    IF current_character_index >= Len(characters)
    THEN CreateStartIndex % Len(characters)
    ELSE current_character_index

CreateWrapIndex(current_character_index, characters) ==
    IF current_character_index >= Len(characters) THEN 0 ELSE current_character_index

\* continue_conversation: "Find last character index"; -1 stands for the ValueError of list.index
ResumeIndexNoAdvance(last_character, characters) ==
    IF last_character = "system" THEN 0
    ELSE IF last_character \notin Range(characters) THEN -1
    ELSE ListIndex(characters, last_character) % Len(characters)

ResumeIndexSystemOne(last_character, characters) ==
    IF last_character = "system" THEN 1 % Len(characters)
    ELSE IF last_character \notin Range(characters) THEN -1
    ELSE (ListIndex(characters, last_character) + 1) % Len(characters)

ResumeIndexDefault(last_character, characters) ==
    IF last_character = "system" THEN 0
    ELSE IF last_character \notin Range(characters) THEN 0
    ELSE (ListIndex(characters, last_character) + 1) % Len(characters)

ResumeIndex(last_character, characters) ==
    IF last_character = "system" THEN 0
    ELSE IF last_character \notin Range(characters) THEN -1
    ELSE (ListIndex(characters, last_character) + 1) % Len(characters)

\* conversation.messages.append(Message(...))
AppendMessagePrepend(messages, m) == <<m>> \o messages

AppendMessage(messages, m) == Append(messages, m)

\* the seed: "Add initial message from the first character"
SeedMessageLast(characters, initial_message) ==
    Message(characters[Len(characters)], initial_message)

SeedMessage(characters, initial_message) == Message(characters[1], initial_message)

\* the conversation file is written once, after the loop, when the handler returns
ShouldSaveEachTurn(r) == r.status_code \in {0, 200}

ShouldSave(r) == r.pc = "done" /\ r.status_code = 200

\* generate_response: system_config = load_system_config(), read anew in every call
TurnConfigCached(r, cfg) ==
    IF r.sent = <<>> THEN cfg
    ELSE [active_model |-> r.sent[1].model, temperature |-> r.sent[1].temperature,
          max_tokens |-> r.sent[1].max_tokens]

TurnConfig(r, cfg) == cfg

\* generate_response(conversation, ...): the transcript the prompt is built from
PromptSourceLoaded(r) == r.loaded

PromptSource(r) == r.messages

\* the json of the completion call
BackendRequest(r, cfg) ==
    [model |-> TurnConfig(r, cfg).active_model,
     temperature |-> TurnConfig(r, cfg).temperature,
     max_tokens |-> TurnConfig(r, cfg).max_tokens,
     history |-> RenderHistory(PromptSource(r)),
     cue |-> r.current_character]

\* generate_response up to its await: load the persona file, read the configuration, post
GenerateResponseStart(r, cfg) ==
    IF r.current_character \notin Personas
    THEN Raise(r, HTTPException(500, "FileNotFoundError"))
    ELSE [r EXCEPT !.pc = "awaiting",
                   !.request = BackendRequest(r, cfg),
                   !.sent = Append(@, BackendRequest(r, cfg)),
                   !.posts = @ + 1]

\* create_conversation: from the top of the turn loop to the next await or the return
CreateLoop(r, cfg) ==
    IF r.remaining <= 0 THEN Return(r)
    ELSE LET i == CreateWrapIndex(r.current_character_index, r.characters) IN
         GenerateResponseStart([r EXCEPT !.current_character_index = i,
                                         !.current_character = r.characters[i + 1]], cfg)

\* continue_conversation: from the top of the turn loop to the next await or the return
ContinueLoop(r, cfg) ==
    IF r.remaining <= 0 THEN Return(r)
    ELSE IF r.current_character_index >= Len(r.characters) THEN Raise(r, PyError("IndexError"))
    ELSE GenerateResponseStart(
             [r EXCEPT !.current_character = r.characters[r.current_character_index + 1]], cfg)

\* the rest of a loop body once the backend has answered: clean up, append, advance
TurnDone(r, response_text, cfg) ==
    LET m == Message(r.current_character, CleanResponse(response_text, r.characters))
        appended == [r EXCEPT !.messages = AppendMessage(@, m), !.remaining = @ - 1] IN
    IF r.op = "create"
    THEN CreateLoop([appended EXCEPT !.current_character_index = @ + 1], cfg)
    ELSE ContinueLoop([appended EXCEPT !.current_character_index = (@ + 1) % Len(r.characters)], cfg)

Frame(op, id, found, characters, messages, index, num_turns) ==
    [op |-> op, pc |-> "running", id |-> id, found |-> found, num_turns |-> num_turns,
     characters |-> characters, loaded |-> messages, messages |-> messages,
     current_character_index |-> index, remaining |-> num_turns, current_character |-> "",
     request |-> NoRequest, sent |-> <<>>, status_code |-> 0, error |-> NoError,
     posts |-> 0, writes |-> 0]

\* the frame with its write counted, and the store after it
Saved(r) == IF ShouldSave(r) THEN [r EXCEPT !.writes = @ + 1] ELSE r

\* the store after a write that adds the request's own turns to the file as it is now
StoreAfterMerge(r) ==
    IF ShouldSave(r)
    THEN [store EXCEPT ![r.id] =
             Conversation(r.characters,
                          IF r.op = "continue"
                          THEN @.messages \o SubSeq(r.messages, Len(r.loaded) + 1, Len(r.messages))
                          ELSE r.messages)]
    ELSE store

StoreAfter(r) ==
    IF ShouldSave(r)
    THEN [store EXCEPT ![r.id] = Conversation(r.characters, r.messages)]
    ELSE store

\* turns already asked for by the requests received
RECURSIVE TurnsRequested(_)
TurnsRequested(cs) == IF cs = <<>> THEN 0 ELSE Head(cs).num_turns + TurnsRequested(Tail(cs))

TurnsLeft == MaxTurns - TurnsRequested(calls)

\* uuid4: an id no file and no earlier create has
FreshIds == {i \in ConvIds : ~store[i].exists /\ ~created[i].given}
Min(S) == CHOOSE x \in S : \A y \in S : x <= y

(* ------------------------ model loading tracker ------------------------ *)
\* model names a load request may carry
Models == {"m1", "m2"}

\* configurations an explicit update may write
ConfigUpdates ==
    { [active_model |-> "m1", temperature |-> 2, max_tokens |-> 64] }

\* perform_model_loading on success: load_system_config, set active_model, save_system_config
ConfigAfterLoadKept(cfg, model_name) == cfg

ConfigAfterLoad(cfg, model_name) == [cfg EXCEPT !.active_model = model_name]

\* perform_model_loading, config = load_system_config(): the file as it is after the
\* warm-up call, not as it was when the task started
ConfigReadAtStart(task, cfg) == task.started_with

ConfigRead(task, cfg) == cfg

InFlight(m) == {t \in 1..Len(tasks) : tasks[t].model = m /\ tasks[t].pc = "awaiting"}

\* model_loading_lock = asyncio.Lock(): nobody holds it
Free == <<"none", 0>>

\* no text is being cleaned, no prompt is being built
NoText == [pc |-> "none", raw |-> <<>>, characters |-> <<>>, stripped |-> <<>>,
           unmarked |-> <<>>, unprefixed |-> <<>>, unquoted |-> <<>>, once |-> <<>>,
           twice |-> <<>>, rendered |-> <<>>]
NoTranscript == [pc |-> "none", messages |-> <<>>, history |-> <<>>]

(* ------------------------------- Init ---------------------------------- *)
Init ==
    /\ store \in {f \in [ConvIds -> PreExisting] : \A i \in ConvIds : i > 1 => f[i] = NoConv}
    /\ calls = <<>>
    /\ created = [i \in ConvIds |-> NotGiven]
    /\ config = DEFAULT_SYSTEM_CONFIG
    /\ model_loading_status = [m \in Models |-> "absent"]
    /\ tasks = <<>>
    /\ loaders = <<>>
    /\ lock = Free
    /\ san = NoText
    /\ hist = NoTranscript

(* ------------------------------ actions -------------------------------- *)
\* POST /conversations, up to its first await or its return
create_conversation(characters, initial_message, num_turns) ==
    /\ Len(calls) < MaxRequests
    /\ FreshIds # {}
    /\ LET id == Min(FreshIds)
           missing == \E i \in 1..Len(characters) : characters[i] \notin Personas
           frame == Frame("create", id, FALSE, characters,
                          <<Message("system", StartText)>>, CreateStartIndex, num_turns)
           r == IF missing THEN Raise([frame EXCEPT !.id = 0], HTTPException(404, "Character not found"))
                ELSE IF characters = <<>> THEN Raise(frame, PyError("IndexError"))
                ELSE CreateLoop([frame EXCEPT
                                    !.messages = AppendMessage(@, SeedMessage(characters, initial_message))],
                                config)
       IN /\ calls' = Append(calls, Saved(r))
          /\ store' = StoreAfter(r)
          /\ created' = IF missing THEN created
                        ELSE [created EXCEPT ![id] = [given |-> TRUE, characters |-> characters]]
    /\ UNCHANGED <<others, config, model_loading_status, tasks>>

\* POST /conversations/{id}/continue, up to its first await or its return
continue_conversation(conversation_id, num_turns) ==
    /\ Len(calls) < MaxRequests
    /\ LET conv == store[conversation_id]
           frame == Frame("continue", conversation_id, conv.exists, conv.characters,
                          conv.messages, 0, num_turns)
           r == IF ~conv.exists THEN Raise(frame, HTTPException(404, "Conversation not found"))
                ELSE IF conv.messages = <<>> THEN Raise(frame, PyError("IndexError"))
                ELSE LET i == ResumeIndex(conv.messages[Len(conv.messages)].role, conv.characters) IN
                     IF i = -1 THEN Raise(frame, PyError("ValueError"))
                     ELSE ContinueLoop([frame EXCEPT !.current_character_index = i], config)
       IN /\ calls' = Append(calls, Saved(r))
          /\ store' = StoreAfter(r)
    /\ UNCHANGED <<others, created, config, model_loading_status, tasks>>

\* the backend answers 200 to the pending completion call of request c
BackendRespond(c, response_text) ==
    /\ calls[c].pc = "awaiting"
    /\ LET r == TurnDone(calls[c], response_text, config)
       IN /\ calls' = [calls EXCEPT ![c] = Saved(r)]
          /\ store' = StoreAfter(r)
    /\ UNCHANGED <<others, created, config, model_loading_status, tasks>>

\* the pending completion call of request c fails: non-200 status, timeout or other exception
BackendFail(c, kind) ==
    /\ calls[c].pc = "awaiting"
    /\ LET r == Raise(calls[c], HTTPException(500, "backend"))
       IN /\ calls' = [calls EXCEPT ![c] = Saved(r)]
          /\ store' = StoreAfter(r)
    /\ UNCHANGED <<others, created, config, model_loading_status, tasks>>

\* PUT /system/config
update_system_config(cfg) ==
    /\ config # cfg
    /\ config' = cfg
    /\ UNCHANGED <<others, store, calls, created, model_loading_status, tasks>>

\* POST /system/models/load: set the status and spawn the background task
load_model(model_name) ==
    /\ Len(tasks) < MaxLoads
    /\ model_loading_status' = [model_loading_status EXCEPT ![model_name] = "loading"]
    /\ tasks' = Append(tasks, [model |-> model_name, pc |-> "awaiting", started_with |-> config])
    /\ UNCHANGED <<others, store, calls, created, config>>

\* perform_model_loading: the warm-up call returned 200
LoadSucceed(t) ==
    /\ tasks[t].pc = "awaiting"
    /\ config' = ConfigAfterLoad(ConfigRead(tasks[t], config), tasks[t].model)
    /\ model_loading_status' = [model_loading_status EXCEPT ![tasks[t].model] = "idle"]
    /\ tasks' = [tasks EXCEPT ![t].pc = "succeeded"]
    /\ UNCHANGED <<others, store, calls, created>>

\* perform_model_loading: the warm-up call failed (non-200 status, timeout, exception)
LoadFail(t, kind) ==
    /\ tasks[t].pc = "awaiting"
    /\ model_loading_status' = [model_loading_status EXCEPT ![tasks[t].model] = "idle"]
    /\ tasks' = [tasks EXCEPT ![t].pc = "failed"]
    /\ UNCHANGED <<others, store, calls, created, config>>

Next ==
    \/ \E characters \in CharacterLists, initial_message \in InitialMessages, n \in 0..TurnsLeft :
           create_conversation(characters, initial_message, n)
    \/ \E id \in ConvIds, n \in 0..TurnsLeft : continue_conversation(id, n)
    \/ \E c \in 1..Len(calls), response_text \in Responses : BackendRespond(c, response_text)
    \/ \E c \in 1..Len(calls), kind \in FailureKinds : BackendFail(c, kind)

NextLoad ==
    \/ \E cfg \in ConfigUpdates : update_system_config(cfg)
    \/ \E m \in Models : load_model(m)
    \/ \E t \in 1..Len(tasks) : LoadSucceed(t)
    \/ \E t \in 1..Len(tasks), kind \in FailureKinds : LoadFail(t, kind)

(* ------------------- the clean-up as a function of a text -------------- *)
\* what a backend response or a stored content may be made of
Pieces == {ThinkOpen, ThinkClose, DoubleQuote, SingleQuote, <<" ">>, <<"x">>, <<"A", ":">>}

RECURSIVE Texts(_)
Texts(n) == IF n = 0 THEN {<<>>}
            ELSE Texts(n - 1) \cup {t \o p : t \in Texts(n - 1), p \in Pieces}

\* nothing is running; one text waits to be cleaned
InitText ==
    /\ store = [i \in ConvIds |-> NoConv]
    /\ calls = <<>>
    /\ created = [i \in ConvIds |-> NotGiven]
    /\ config = DEFAULT_SYSTEM_CONFIG
    /\ model_loading_status = [m \in Models |-> "absent"]
    /\ tasks = <<>>
    /\ loaders = <<>>
    /\ lock = Free
    /\ san \in {[NoText EXCEPT !.pc = "input", !.raw = t, !.characters = <<"A", "B">>] :
                    t \in Texts(MaxPieces)}
    /\ hist = NoTranscript

\* generate_response, "Clean up response": the text after each rule
CleanUp ==
    /\ san.pc = "input"
    /\ LET stripped == Strip(san.raw)
           unmarked == RemoveThink(stripped)
           unprefixed == StripNamePrefix(unmarked, san.characters)
           unquoted == StripQuotes(unprefixed) IN
       san' = [san EXCEPT !.pc = "cleaned", !.stripped = stripped, !.unmarked = unmarked,
                          !.unprefixed = unprefixed, !.unquoted = unquoted,
                          !.once = Strip(unquoted)]
    /\ UNCHANGED <<store, calls, created, config, model_loading_status, tasks, loaders, lock, hist>>

\* the clean-up applied to a text it has already cleaned
CleanUpAgain ==
    /\ san.pc = "cleaned"
    /\ san' = [san EXCEPT !.pc = "twice", !.twice = CleanResponse(san.once, san.characters)]
    /\ UNCHANGED <<store, calls, created, config, model_loading_status, tasks, loaders, lock, hist>>

\* generate_response, the history loop: the text as a stored content is shown in a prompt
RenderContent ==
    /\ san.pc = "input"
    /\ san' = [san EXCEPT !.pc = "rendered", !.rendered = CleanHistory(san.raw)]
    /\ UNCHANGED <<store, calls, created, config, model_loading_status, tasks, loaders, lock, hist>>

NextText == CleanUp \/ CleanUpAgain \/ RenderContent

(* ------------------- the prompt history over transcripts --------------- *)
\* the state in which no request has been made and nothing is stored
Quiet ==
    /\ store = [i \in ConvIds |-> NoConv]
    /\ calls = <<>>
    /\ created = [i \in ConvIds |-> NotGiven]
    /\ config = DEFAULT_SYSTEM_CONFIG
    /\ model_loading_status = [m \in Models |-> "absent"]
    /\ tasks = <<>>

Digits == <<"0", "1", "2", "3", "4", "5", "6", "7", "8", "9">>

\* the i-th message of a transcript says its own position
Numeral(i) == <<Digits[(i \div 10) + 1], Digits[(i % 10) + 1]>>

\* a transcript of n messages, those at the positions in system by role "system",
\* the others by A and B in turn
Transcript(n, system) ==
    [i \in 1..n |-> Message(IF i \in system THEN "system"
                            ELSE IF i % 2 = 1 THEN "A" ELSE "B", Numeral(i))]

\* conversation.messages as generate_response may receive it: up to two system messages
Transcripts ==
    {Transcript(n, {p, q}) : n \in 0..MaxMessages, p \in 0..MaxMessages, q \in 0..MaxMessages}

InitHist ==
    /\ Quiet
    /\ loaders = <<>>
    /\ lock = Free
    /\ san = NoText
    /\ hist \in {[NoTranscript EXCEPT !.pc = "input", !.messages = m] : m \in Transcripts}

\* generate_response, "Build conversation history"
BuildHistory ==
    /\ hist.pc = "input"
    /\ hist' = [hist EXCEPT !.pc = "built", !.history = RenderHistory(hist.messages)]
    /\ UNCHANGED <<store, calls, created, config, model_loading_status, tasks, loaders, lock, san>>

NextHist == BuildHistory

(* ---------------- the loading tracker, lock by lock --------------------- *)
\* Here "async with model_loading_lock" is two steps, entering it (the await that takes
\* the lock) and its body with the release, so that who holds the lock shows in a state.
InitLock ==
    /\ Quiet
    /\ loaders = <<>>
    /\ lock = Free
    /\ san = NoText
    /\ hist = NoTranscript

\* the lock once holder has entered "async with model_loading_lock"
AcquireSkipped(holder) == Free

Acquire(holder) == holder

\* POST /system/models/load arrives: the handler is about to enter the lock in its try
LoadEnter(model_name) ==
    /\ Len(loaders) < MaxLoaders
    /\ loaders' = Append(loaders, [model |-> model_name, pc |-> "enter", writes |-> 0])
    /\ UNCHANGED <<store, calls, created, config, model_loading_status, tasks, lock, san, hist>>

\* load_model enters "async with model_loading_lock", in its try or in its except
LoadAcquire(l) ==
    /\ loaders[l].pc \in {"enter", "error"}
    /\ lock = Free
    /\ lock' = Acquire(<<"load", l>>)
    /\ loaders' = [loaders EXCEPT ![l].pc = IF @ = "enter" THEN "locked" ELSE "relocked"]
    /\ UNCHANGED <<store, calls, created, config, model_loading_status, tasks, san, hist>>

\* load_model: status[model] = True, leave the lock, create the task and return;
\* task_created = FALSE is asyncio.create_task raising, which takes the handler to its except
LoadSetLoading(l, task_created) ==
    /\ loaders[l].pc = "locked"
    /\ model_loading_status' = [model_loading_status EXCEPT ![loaders[l].model] = "loading"]
    /\ lock' = Free
    /\ loaders' = [loaders EXCEPT ![l].pc = IF task_created THEN "returned" ELSE "error",
                                  ![l].writes = @ + 1]
    /\ tasks' = IF task_created
                THEN Append(tasks, [model |-> loaders[l].model,
                                    pc |-> "awaiting", writes |-> 0])
                ELSE tasks
    /\ UNCHANGED <<store, calls, created, config, san, hist>>

\* load_model, except: status[model] = False, leave the lock, raise HTTPException(500)
LoadSetIdle(l) ==
    /\ loaders[l].pc = "relocked"
    /\ model_loading_status' = [model_loading_status EXCEPT ![loaders[l].model] = "idle"]
    /\ lock' = Free
    /\ loaders' = [loaders EXCEPT ![l].pc = "raised", ![l].writes = @ + 1]
    /\ UNCHANGED <<store, calls, created, config, tasks, san, hist>>

\* perform_model_loading: the warm-up call returned 200; the configuration is saved and
\* the task is about to enter the lock
WarmupOk(t) ==
    /\ tasks[t].pc = "awaiting"
    /\ config' = ConfigAfterLoad(config, tasks[t].model)
    /\ tasks' = [tasks EXCEPT ![t].pc = "ok"]
    /\ UNCHANGED <<store, calls, created, model_loading_status, loaders, lock, san, hist>>

\* perform_model_loading: the warm-up call failed; the task is about to enter the lock
\* in its except
WarmupFail(t, kind) ==
    /\ tasks[t].pc = "awaiting"
    /\ tasks' = [tasks EXCEPT ![t].pc = "err"]
    /\ UNCHANGED <<store, calls, created, config, model_loading_status, loaders, lock, san, hist>>

\* perform_model_loading enters "async with model_loading_lock"
TaskAcquire(t) ==
    /\ tasks[t].pc \in {"ok", "err"}
    /\ lock = Free
    /\ lock' = Acquire(<<"task", t>>)
    /\ tasks' = [tasks EXCEPT ![t].pc = IF @ = "ok" THEN "locked_ok" ELSE "locked_err"]
    /\ UNCHANGED <<store, calls, created, config, model_loading_status, loaders, san, hist>>

\* perform_model_loading: status[model] = False, leave the lock, end
TaskSetIdle(t) ==
    /\ tasks[t].pc \in {"locked_ok", "locked_err"}
    /\ model_loading_status' = [model_loading_status EXCEPT ![tasks[t].model] = "idle"]
    /\ lock' = Free
    /\ tasks' = [tasks EXCEPT ![t].pc = IF @ = "locked_ok" THEN "succeeded" ELSE "failed",
                              ![t].writes = @ + 1]
    /\ UNCHANGED <<store, calls, created, config, loaders, san, hist>>

NextLock ==
    \/ \E m \in Models : LoadEnter(m)
    \/ \E l \in 1..Len(loaders) : LoadAcquire(l)
    \/ \E l \in 1..Len(loaders), task_created \in BOOLEAN : LoadSetLoading(l, task_created)
    \/ \E l \in 1..Len(loaders) : LoadSetIdle(l)
    \/ \E t \in 1..Len(tasks) : WarmupOk(t)
    \/ \E t \in 1..Len(tasks), kind \in FailureKinds : WarmupFail(t, kind)
    \/ \E t \in 1..Len(tasks) : TaskAcquire(t)
    \/ \E t \in 1..Len(tasks) : TaskSetIdle(t)

(* ------------- batches of turns while the configuration changes -------- *)
InitBatch ==
    /\ Quiet
    /\ loaders = <<>>
    /\ lock = Free
    /\ san = NoText
    /\ hist = NoTranscript

\* one batch is followed, over a participant list whose persona files all exist
NoBatchYet == calls = <<>>

BatchCharacters == {cs \in CharacterLists : Len(cs) >= 2 /\ Range(cs) \subseteq Personas}

NextBatch ==
    \/ \E characters \in BatchCharacters, initial_message \in InitialMessages, n \in 1..TurnsLeft :
           NoBatchYet /\ create_conversation(characters, initial_message, n)
    \/ \E c \in 1..Len(calls), response_text \in Responses : BackendRespond(c, response_text)
    \/ \E cfg \in ConfigUpdates : update_system_config(cfg)
    \/ \E m \in Models : Len(tasks) < MaxBatchLoads /\ load_model(m)
    \/ \E t \in 1..Len(tasks) : LoadSucceed(t)

(* ------------- the loading tracker under load requests without end ----- *)
\* load_model keeps no reference to the task it creates: once the task has ended the
\* event loop drops it, and the load requests go on
TaskCollected(t) ==
    /\ tasks[t].pc \in {"succeeded", "failed"}
    /\ tasks' = SubSeq(tasks, 1, t - 1) \o SubSeq(tasks, t + 1, Len(tasks))
    /\ UNCHANGED <<others, store, calls, created, config, model_loading_status>>

\* the warm-up call of task t comes to an end: 200, an error status, a timeout
WarmupEnds(t) ==
    /\ t \in 1..Len(tasks)
    /\ \/ LoadSucceed(t)
       \/ \E kind \in FailureKinds : LoadFail(t, kind)

NextLoadOn ==
    \/ \E m \in Models : load_model(m)
    \/ \E t \in 1..Len(tasks) : LoadSucceed(t)
    \/ \E t \in 1..Len(tasks), kind \in FailureKinds : LoadFail(t, kind)
    \/ \E t \in 1..Len(tasks) : TaskCollected(t)

\* the turn scheduler
Spec == Init /\ [][Next]_vars

\* the loading tracker where every warm-up call comes to an end (httpx timeout=1800.0)
SpecLoadFair ==
    /\ InitBatch
    /\ [][NextLoadOn]_vars
    /\ \A t \in 1..MaxLoads : WF_vars(WarmupEnds(t))

\* the turn scheduler with the configuration changing under it
SpecBatch == InitBatch /\ [][NextBatch]_vars

\* the loading tracker with the lock
SpecLock == InitLock /\ [][NextLock]_vars

\* the prompt history, over transcripts
SpecHist == InitHist /\ [][NextHist]_vars

\* the response clean-up and the history clean-up, over texts
SpecText == InitText /\ [][NextText]_vars

\* the model loading tracker and the configuration
SpecLoad == Init /\ [][NextLoad]_vars

(* ------------------------------ properties ----------------------------- *)
IsPrefix(a, b) == Len(a) <= Len(b) /\ SubSeq(b, 1, Len(a)) = a

Requests == 1..Len(calls)

LastRole(messages) == messages[Len(messages)].role

\* role of the i-th message (0-based) a request generated after the transcript it started from
GeneratedRole(r, start, i) == r.messages[start + 1 + i].role

\* requests that returned the conversation
Created == {c \in Requests : calls[c].op = "create" /\ calls[c].status_code = 200}
Continued == {c \in Requests : calls[c].op = "continue" /\ calls[c].status_code = 200}

\* C1: a successful create over a non-empty participant list of length n with t turns
\* returns [system, seed by characters[0]] followed by exactly t generated messages,
\* the i-th by characters[(1 + i) mod n].
C1_CreateRoles ==
    \A c \in Created :
        LET r == calls[c]
            n == Len(r.characters)
            t == r.num_turns IN
        /\ n > 0
        /\ Len(r.messages) = 2 + t
        /\ r.messages[1].role = "system"
        /\ r.messages[2].role = r.characters[1]
        /\ \A i \in 0..(t - 1) : GeneratedRole(r, 2, i) = r.characters[((1 + i) % n) + 1]

\* a create over three participants whose turns wrap round the list
C1_Witness ==
    \E c \in Created : Len(calls[c].characters) = 3 /\ calls[c].num_turns >= 3

\* C2 as stated: for EVERY index k at which the last role occurs in characters, a
\* successful continue with t turns appends exactly t messages, the j-th by
\* characters[(k + 1 + j) mod n].
C2_AnyIndex ==
    \A c \in Continued :
        LET r == calls[c]
            n == Len(r.characters)
            t == r.num_turns IN
        \A k \in 0..(n - 1) :
            r.characters[k + 1] = LastRole(r.loaded) =>
                /\ Len(r.messages) = Len(r.loaded) + t
                /\ \A j \in 0..(t - 1) :
                       GeneratedRole(r, Len(r.loaded), j) = r.characters[((k + 1 + j) % n) + 1]

\* C2 amended: when the last role is not "system" and k is the FIRST index at which it
\* occurs in characters, a successful continue with t turns keeps the loaded transcript
\* and appends exactly t messages, the j-th by characters[(k + 1 + j) mod n].
C2_FirstIndex ==
    \A c \in Continued :
        LET r == calls[c]
            n == Len(r.characters)
            t == r.num_turns IN
        LastRole(r.loaded) # "system" =>
            /\ LastRole(r.loaded) \in Range(r.characters)
            /\ IsPrefix(r.loaded, r.messages)
            /\ Len(r.messages) = Len(r.loaded) + t
            /\ LET k == ListIndex(r.characters, LastRole(r.loaded)) IN
               \A j \in 0..(t - 1) :
                   GeneratedRole(r, Len(r.loaded), j) = r.characters[((k + 1 + j) % n) + 1]

\* a continue of two or more turns after a participant's message, wrapping round the list
C2_Witness ==
    \E c \in Continued :
        /\ LastRole(calls[c].loaded) # "system"
        /\ calls[c].num_turns >= 2
        /\ ListIndex(calls[c].characters, LastRole(calls[c].loaded)) + calls[c].num_turns
               >= Len(calls[c].characters)

\* C5 as stated: under every interleaving of create and continue, each persisted
\* version of a transcript has the previously persisted version as a prefix.
C5_AlwaysExtends ==
    [][\A id \in ConvIds :
           store[id].exists =>
               /\ store'[id].exists
               /\ IsPrefix(store[id].messages, store'[id].messages)]_vars

\* the request that wrote the file of id in this step
WroteIn(c, id) ==
    /\ calls'[c].id = id
    /\ calls'[c].writes = 1
    /\ (c > Len(calls) \/ calls[c].writes = 0)

\* C5 amended: a file is written only by a create on an id that had no file, or by a
\* continue, and then the version written has the transcript that continue loaded as a
\* prefix; so it extends the previously persisted version whenever no other request
\* persisted that id since the load. (Overlapping continues are last-write-wins.)
C5_ExtendsLoaded ==
    [][\A id \in ConvIds :
           store'[id] # store[id] =>
               \E c \in 1..Len(calls') :
                   /\ WroteIn(c, id)
                   /\ store'[id].exists
                   /\ calls'[c].op = "create" => ~store[id].exists
                   /\ calls'[c].op = "continue" =>
                          /\ store[id].exists
                          /\ IsPrefix(calls'[c].loaded, store'[id].messages)
                          /\ store[id].messages = calls'[c].loaded =>
                                 IsPrefix(store[id].messages, store'[id].messages)]_vars

\* two continues loaded the same transcript of one id and both persisted, the second
\* not extending what the first wrote
C5_Witness ==
    \E c1, c2 \in Continued :
        /\ c1 # c2
        /\ calls[c1].id = calls[c2].id
        /\ calls[c1].loaded = calls[c2].loaded
        /\ calls[c1].num_turns > calls[c2].num_turns
        /\ store[calls[c1].id].messages = calls[c2].messages

\* C6: a conversation created by create_conversation, as stored after the create and
\* after any continue, has the non-empty participant list given at creation, starts
\* with a "system" message and the seed by characters[0], and every non-system role
\* is a participant.
C6_WellFormed ==
    \A id \in ConvIds :
        (store[id].exists /\ created[id].given) =>
            LET conv == store[id] IN
            /\ conv.characters # <<>>
            /\ conv.characters = created[id].characters
            /\ Len(conv.messages) >= 2
            /\ conv.messages[1].role = "system"
            /\ conv.messages[2].role = conv.characters[1]
            /\ conv.messages[2].content \in InitialMessages
            /\ \A i \in 1..Len(conv.messages) :
                   conv.messages[i].role # "system" =>
                       conv.messages[i].role \in Range(conv.characters)

\* a created conversation that a continue extended and persisted again
C6_Witness ==
    \E c \in Continued :
        /\ created[calls[c].id].given
        /\ calls[c].num_turns >= 1
        /\ store[calls[c].id].messages = calls[c].messages
        /\ Len(created[calls[c].id].characters) >= 2

BackendFailed == {c \in Requests : calls[c].error.detail = "backend"}

\* messages a request generated
Generated(r) == Len(r.messages) - (IF r.op = "create" THEN 2 ELSE Len(r.loaded))

\* C7: when the backend call of a turn fails, the request ends with an error, it has
\* issued no backend call after the failed one, and it has written nothing: a failed
\* create leaves no file under its id, a failed continue never wrote the file.
C7_FailedBatch ==
    \A c \in BackendFailed :
        LET r == calls[c] IN
        /\ r.pc = "done"
        /\ r.status_code = 500
        /\ r.posts = Generated(r) + 1
        /\ Generated(r) < r.num_turns
        /\ r.writes = 0
        /\ r.op = "create" => ~store[r.id].exists

\* a batch that failed after an earlier turn of it had succeeded
C7_Witness ==
    \E c \in BackendFailed : calls[c].posts >= 2 /\ calls[c].num_turns >= 3

\* continues that found a transcript whose last role is neither "system" nor a participant
Inconsistent ==
    {c \in Requests :
        /\ calls[c].op = "continue"
        /\ calls[c].found
        /\ calls[c].loaded # <<>>
        /\ LastRole(calls[c].loaded) \notin ({"system"} \cup Range(calls[c].characters))}

\* C8: such a continue ends with an error; it has chosen no speaker, issued no backend
\* call, appended no message and written nothing.
C8_Inconsistent ==
    \A c \in Inconsistent :
        LET r == calls[c] IN
        /\ r.pc = "done"
        /\ r.status_code = 500
        /\ r.current_character = ""
        /\ r.posts = 0
        /\ r.messages = r.loaded
        /\ r.writes = 0
        /\ store[r.id].messages = r.loaded

C8_Witness == \E c \in Inconsistent : calls[c].num_turns >= 1

\* continues on an id that had no file
Missing == {c \in Requests : calls[c].op = "continue" /\ ~calls[c].found}

\* C9: a continue on an id that is not in the store ends with 404 (not 500), has issued
\* no backend call and has written nothing.
C9_NotFound ==
    \A c \in Missing :
        LET r == calls[c] IN
        /\ r.pc = "done"
        /\ r.status_code = 404
        /\ r.posts = 0
        /\ r.writes = 0
        /\ (\A d \in Requests : calls[d].op = "create" => calls[d].id # r.id) =>
               ~store[r.id].exists

C9_Witness == \E c \in Missing : calls[c].num_turns >= 1 /\ ~store[calls[c].id].exists

\* C10: a successful continue of a transcript whose last role is "system" appends
\* exactly t messages, the j-th by characters[j mod n].
C10_ResumeAfterSystem ==
    \A c \in Continued :
        LET r == calls[c]
            n == Len(r.characters)
            t == r.num_turns IN
        LastRole(r.loaded) = "system" =>
            /\ IsPrefix(r.loaded, r.messages)
            /\ Len(r.messages) = Len(r.loaded) + t
            /\ \A j \in 0..(t - 1) :
                   GeneratedRole(r, Len(r.loaded), j) = r.characters[(j % n) + 1]

\* a continue after a "system" message whose turns wrap round the list
C10_Witness ==
    \E c \in Continued :
        /\ LastRole(calls[c].loaded) = "system"
        /\ calls[c].num_turns > Len(calls[c].characters)

\* C3: a load request for a model that is already loading starts no second warm-up,
\* and the status of a model stays "loading" for as long as a warm-up for it is in
\* flight.
C3_SingleWarmup ==
    \A m \in Models :
        /\ Cardinality(InFlight(m)) <= 1
        /\ InFlight(m) # {} => model_loading_status[m] = "loading"

\* C4: when the warm-up for model m succeeds, the active model becomes m and the status
\* of m becomes idle; when it fails, the status of m becomes idle and the configuration
\* is left as it was.
C4_LoadOutcome ==
    [][\A t \in 1..Len(tasks) :
           tasks[t].pc = "awaiting" =>
               /\ tasks'[t].pc = "succeeded" =>
                      /\ config'.active_model = tasks[t].model
                      /\ config'.temperature = config.temperature
                      /\ config'.max_tokens = config.max_tokens
                      /\ model_loading_status'[tasks[t].model] = "idle"
               /\ tasks'[t].pc = "failed" =>
                      /\ config' = config
                      /\ model_loading_status'[tasks[t].model] = "idle"]_vars

\* one warm-up has succeeded and a later one for another model has failed, the active
\* model still being the first
C4_Witness ==
    \E t1, t2 \in 1..Len(tasks) :
        /\ tasks[t1].pc = "succeeded"
        /\ tasks[t2].pc = "failed"
        /\ tasks[t1].model # tasks[t2].model
        /\ config.active_model = tasks[t1].model
        /\ model_loading_status[tasks[t1].model] = "idle"
        /\ model_loading_status[tasks[t2].model] = "idle"

\* C11 as stated: cleaning a cleaned text again changes nothing.
C11_Idempotent == san.pc = "twice" => san.twice = san.once

\* the reasoning-markup rule as C12 states it: from the first open marker through the
\* next close marker, again and again; an open marker with no close marker after it
\* stays, with all the text behind it
RECURSIVE RemovePairedSpans(_)
RemovePairedSpans(text) ==
    LET open == Find(text, ThinkOpen) IN
    IF open = -1 THEN text
    ELSE LET rest == SubSeq(text, open + Len(ThinkOpen) + 1, Len(text))
             close == Find(rest, ThinkClose) IN
         IF close = -1 THEN text
         ELSE SubSeq(text, 1, open)
              \o RemovePairedSpans(SubSeq(rest, close + Len(ThinkClose) + 1, Len(rest)))

\* C12 as stated: the markup rule removes the paired spans, keeps all other text and
\* leaves an unterminated segment, its open marker included, as it is.
C12_PairedSpans ==
    san.pc \in {"cleaned", "twice"} => san.unmarked = RemovePairedSpans(san.stripped)

\* one matching pair of quotes round the whole text
Wrapped(text) ==
    /\ Len(text) >= 2
    /\ \/ Head(text) = "\"" /\ text[Len(text)] = "\""
       \/ Head(text) = "'" /\ text[Len(text)] = "'"

\* C13 as stated: the outer quotes are stripped exactly when the text, as it stands after
\* the earlier rules, is wrapped in one matching pair; any other text, a lone quote
\* character included, comes back unchanged.
C13_WrappingQuotes ==
    san.pc \in {"cleaned", "twice"} =>
        san.unquoted = IF Wrapped(san.unprefixed)
                       THEN Strip(SubSeq(san.unprefixed, 2, Len(san.unprefixed) - 1))
                       ELSE san.unprefixed

\* C20 as stated: the text shown in the history is the content put through rules 1, 2, 4
\* and 5 of the response clean-up (the clean-up with no participant name to strip).
C20_SameRules == san.pc = "rendered" => san.rendered = CleanResponse(san.raw, <<>>)

\* positions of the trailing 20-element slice of a transcript that are not system messages
SliceShown(messages) ==
    {j \in 1..Len(messages) : j > Len(messages) - 20 /\ messages[j].role # "system"}

\* C14: the history of a prompt is exactly the non-system messages of the trailing
\* 20-element slice of the transcript, in transcript order; nothing before the slice is
\* shown, and a system message in the slice is dropped without an earlier one taking
\* its place.
C14_Window ==
    hist.pc = "built" =>
        LET shown == SliceShown(hist.messages) IN
        /\ Len(hist.history) = Cardinality(shown)
        /\ \A j \in shown :
              LET k == Cardinality({i \in shown : i <= j}) IN
              /\ hist.history[k].role = hist.messages[j].role
              /\ hist.history[k].content = CleanHistory(hist.messages[j].content)

\* a transcript longer than the slice, with a system message inside the slice and
\* messages before it that are not shown
C14_Witness ==
    /\ hist.pc = "built"
    /\ Len(hist.messages) > 20
    /\ \E j \in 1..Len(hist.messages) :
          j > Len(hist.messages) - 20 /\ hist.messages[j].role = "system"
    /\ hist.messages[Len(hist.messages) - 20].role # "system"
    /\ Len(hist.history) < 20

\* who is inside "async with model_loading_lock": a handler or a task past the entry and
\* before its write
InsideLock ==
    {<<"load", l>> : l \in {i \in 1..Len(loaders) : loaders[i].pc \in {"locked", "relocked"}}}
    \cup {<<"task", t>> : t \in {i \in 1..Len(tasks) : tasks[i].pc \in {"locked_ok", "locked_err"}}}

\* the lock is held only by one who is inside it with the map update as its next step:
\* never by a task whose warm-up call is pending, never by one that has finished
HeldOnlyForUpdate == lock # Free => lock \in InsideLock

\* a step that writes the status map is taken by the holder of the lock
WriteUnderLock ==
    /\ \A l \in 1..Len(loaders) : loaders'[l].writes > loaders[l].writes => lock = <<"load", l>>
    /\ \A t \in 1..Len(tasks) : tasks'[t].writes > tasks[t].writes => lock = <<"task", t>>
    /\ model_loading_status' # model_loading_status =>
           \/ \E l \in 1..Len(loaders) : loaders'[l].writes > loaders[l].writes
           \/ \E t \in 1..Len(tasks) : tasks'[t].writes > tasks[t].writes

\* C15: every write to the status map (load request, its error path, the task's success
\* and failure paths) is made while holding the lock, and the lock is never held while a
\* backend call of its holder is pending, so nobody waits at the lock for a warm-up.
C15_LockDiscipline == []HeldOnlyForUpdate /\ [][WriteUnderLock]_vars

\* all four writing paths have written, and a task holds the lock for its update while the
\* warm-up of another model is still pending
C15_Witness ==
    /\ \E l \in 1..Len(loaders) : loaders[l].pc = "raised" /\ loaders[l].writes = 2
    /\ \E t, u \in 1..Len(tasks) :
          /\ lock = <<"task", t>>
          /\ tasks[u].pc = "awaiting"
          /\ tasks[u].model # tasks[t].model

\* continue c2 loaded the same transcript of id as c did and has persisted its turns
PersistedFirst(c2, c, id) ==
    /\ c2 # c
    /\ calls[c2].op = "continue"
    /\ calls[c2].id = id
    /\ calls[c2].writes = 1
    /\ calls[c2].num_turns >= 1
    /\ calls[c2].loaded = calls'[c].loaded
    /\ store[id].messages = calls[c2].messages

\* C16: when two continues of one id both loaded the transcript before either persisted,
\* the one that persists last writes its loaded transcript plus its own generated turns
\* and nothing else: the turns the other had persisted are gone from the file.
C16_LastWriteWins ==
    [][\A id \in ConvIds : \A c \in 1..Len(calls) :
           (/\ calls'[c].op = "continue"
            /\ WroteIn(c, id)
            /\ \E c2 \in 1..Len(calls) : PersistedFirst(c2, c, id)) =>
               /\ store'[id].messages = calls'[c].messages
               /\ IsPrefix(calls'[c].loaded, store'[id].messages)
               /\ Len(store'[id].messages) = Len(calls'[c].loaded) + calls'[c].num_turns
               /\ \A c2 \in 1..Len(calls) :
                      PersistedFirst(c2, c, id) =>
                          Len(store'[id].messages) =
                              Len(store[id].messages) - calls[c2].num_turns
                                  + calls'[c].num_turns]_vars

\* two continues of one id loaded the same transcript, both persisted, and the file holds
\* the longer batch, written last, in place of the shorter one written first
C16_Witness ==
    \E c1, c2 \in Continued :
        /\ c1 # c2
        /\ calls[c1].id = calls[c2].id
        /\ calls[c1].loaded = calls[c2].loaded
        /\ calls[c1].writes = 1 /\ calls[c2].writes = 1
        /\ 1 <= calls[c1].num_turns /\ calls[c1].num_turns < calls[c2].num_turns
        /\ store[calls[c1].id].messages = calls[c2].messages
        /\ Len(store[calls[c1].id].messages) = Len(calls[c2].loaded) + calls[c2].num_turns

\* the transcript of request r as it stood when r had generated g turns
AfterTurns(r, g) == SubSeq(r.messages, 1, Len(r.messages) - Generated(r) + g)

\* C18: within one create or continue at most one completion call is pending; the call
\* of turn i+1 is issued only after the cleaned response of turn i has been appended,
\* and its prompt is built from the transcript holding all earlier turns of the batch.
C18_Sequential ==
    \A c \in Requests :
        LET r == calls[c] IN
        /\ Len(r.sent) = r.posts
        /\ r.pc = "awaiting" => r.posts = Generated(r) + 1 /\ r.request = r.sent[r.posts]
        /\ r.pc # "awaiting" => r.posts \in {Generated(r), Generated(r) + 1}
        /\ r.posts <= r.num_turns
        /\ \A k \in 1..Len(r.sent) :
              /\ k <= Generated(r) + 1
              /\ r.sent[k].history = RenderHistory(AfterTurns(r, k - 1))
              /\ k >= 2 =>
                     LET last == r.sent[k].history[Len(r.sent[k].history)]
                         turn == AfterTurns(r, k - 1)[Len(AfterTurns(r, k - 1))] IN
                     /\ last.role = turn.role
                     /\ last.role = r.sent[k - 1].cue
                     /\ Len(r.sent[k].history) = Len(r.sent[k - 1].history) + 1

\* a request whose third completion call is pending, the two turns before it appended
C18_Witness ==
    \E c \in Requests :
        /\ calls[c].pc = "awaiting"
        /\ calls[c].posts = 3
        /\ Generated(calls[c]) = 2
        /\ Len(calls[c].request.history) >= 3

\* request c issues a completion call in this step
Posts(c) == calls'[c].posts > (IF c > Len(calls) THEN 0 ELSE calls[c].posts)

\* C17: the completion call of each turn carries the model, temperature and token budget
\* the configuration holds when that turn is generated; a change of the configuration
\* during a batch (an update, or a model load completing) shows in the calls of the later
\* turns and leaves the calls already issued as they were.
C17_ReadPerTurn ==
    [][\A c \in 1..Len(calls') :
           /\ c <= Len(calls) => IsPrefix(calls[c].sent, calls'[c].sent)
           /\ Posts(c) =>
                  LET request == calls'[c].sent[Len(calls'[c].sent)] IN
                  /\ calls'[c].request = request
                  /\ request.model = config.active_model
                  /\ request.temperature = config.temperature
                  /\ request.max_tokens = config.max_tokens]_vars

\* one batch issued three calls: the first under the default configuration, the second
\* after an explicit update, the third after a model load completed
C17_Witness ==
    \E c \in Requests : \E t \in 1..Len(tasks) :
        /\ Len(calls[c].sent) = 3
        /\ calls[c].sent[1].model = DEFAULT_SYSTEM_CONFIG.active_model
        /\ calls[c].sent[1].temperature = DEFAULT_SYSTEM_CONFIG.temperature
        /\ calls[c].sent[2].model # calls[c].sent[1].model
        /\ calls[c].sent[2].temperature # calls[c].sent[1].temperature
        /\ tasks[t].pc = "succeeded"
        /\ calls[c].sent[3].model = tasks[t].model
        /\ calls[c].sent[3].model # calls[c].sent[2].model
        /\ calls[c].sent[3].temperature = calls[c].sent[2].temperature

\* C19 as stated: if every warm-up call ends, every load request for a model m is
\* followed by a state where status[m] is idle and no warm-up of m is in flight, and the
\* entry of m, once made, is never removed.
C19_LoadingEnds ==
    \A m \in Models :
        /\ (model_loading_status[m] = "loading")
               ~> (model_loading_status[m] = "idle" /\ InFlight(m) = {})
        /\ [](model_loading_status[m] # "absent" => [](model_loading_status[m] # "absent"))

\* C21: the configuration write of a successful load replaces the active model and
\* nothing else: temperature and token budget after the write are those the configuration
\* held just before it, so an update made while the warm-up call was pending is kept.
C21_LoadFrame ==
    [][\A t \in 1..Len(tasks) :
           (tasks[t].pc = "awaiting" /\ tasks'[t].pc = "succeeded") =>
               /\ config' = [config EXCEPT !.active_model = tasks[t].model]
               /\ \A field \in {"temperature", "max_tokens"} : config'[field] = config[field]]_vars

\* the only load was requested under one temperature and token budget, an update changed
\* both while its warm-up call was pending, and the load then succeeded: the
\* configuration has the loaded model with the updated values
C21_Witness ==
    /\ Len(tasks) = 1
    /\ tasks[1].pc = "succeeded"
    /\ config.active_model = tasks[1].model
    /\ \A cfg \in ConfigUpdates : cfg.active_model # tasks[1].model
    /\ config.temperature # tasks[1].started_with.temperature
    /\ config.max_tokens # tasks[1].started_with.max_tokens
    /\ \E cfg \in ConfigUpdates :
          config.temperature = cfg.temperature /\ config.max_tokens = cfg.max_tokens

====
